---- MODULE Spec2Model ----
(***************************************************************************)
(* AgroSense plant-disease pipeline: the Trainer's feature pipeline        *)
(* (train.py), the Prediction Service and Record Store Service (server.py) *)
(* and the Dataset Augmenter (augment_data.py), as state machines.         *)
(*                                                                         *)
(* Text whose ORDER the code depends on (label-encoder vocabularies,       *)
(* ISO timestamps sorted by the store) is a sequence of code points, so    *)
(* that sorting is the code-point order Python and the store use.  Text    *)
(* that is only compared for equality is a TLA+ string.                    *)
(***************************************************************************)
EXTENDS Integers, Sequences, FiniteSets, TLC

Range(s) == {s[i] : i \in DOMAIN s}

Min(a, b) == IF a < b THEN a ELSE b

Max(a, b) == IF a < b THEN b ELSE a

\* Python's None / an absent optional value; Some(x) is a present one.
None == <<>>

Some(x) == <<x>>

(***************************************************************************)
(* Text and raw values                                                     *)
(***************************************************************************)

\* Python's str ordering: code point by code point, a proper prefix first.
RECURSIVE LexLess(_, _)
LexLess(a, b) ==
    IF a = <<>> THEN b # <<>>
    ELSE IF b = <<>> THEN FALSE
    ELSE IF Head(a) # Head(b) THEN Head(a) < Head(b)
    ELSE LexLess(Tail(a), Tail(b))

LexLeq(a, b) == a = b \/ LexLess(a, b)

\* Decimal digits of a natural number, as code points ("0" is 48).
RECURSIVE Digits(_)
Digits(n) == IF n < 10 THEN <<48 + n>> ELSE Digits(n \div 10) \o <<48 + (n % 10)>>

\* str(n) of an int ("-" is 45).
StrOfInt(n) == IF n < 0 THEN <<45>> \o Digits(0 - n) ELSE Digits(n)

\* "True" and "False", what astype(str) makes of a bool.
TrueStr == <<84, 114, 117, 101>>

FalseStr == <<70, 97, 108, 115, 101>>

\* dataset.py LEAF_COLORS: "Green", "Yellow", "Brown".
Green == <<71, 114, 101, 101, 110>>

Yellow == <<89, 101, 108, 108, 111, 119>>

Brown == <<66, 114, 111, 119, 110>>

\* dataset.py CROPS_DISEASES labels: "Healthy", "Early_Blight".
Healthy == <<72, 101, 97, 108, 116, 104, 121>>

Early_Blight == <<69, 97, 114, 108, 121, 95, 66, 108, 105, 103, 104, 116>>

\* A raw cell value: a string, a bool or a number (one record shape for all).
Str(s) == [t |-> "str", s |-> s, n |-> 0]

Bool(b) == [t |-> "bool", s |-> <<>>, n |-> IF b THEN 1 ELSE 0]

Num(n) == [t |-> "num", s |-> <<>>, n |-> n]

\* Series.astype(str) on one cell.
AsStr(v) ==
    IF v.t = "str" THEN v.s
    ELSE IF v.t = "bool" THEN (IF v.n = 1 THEN TrueStr ELSE FalseStr)
    ELSE StrOfInt(v.n)

(***************************************************************************)
(* Data frames: an ordered column list and rows mapping column to cell.    *)
(***************************************************************************)

Frame(cols, rows) == [cols |-> cols, rows |-> rows]

\* DataFrame.drop(columns=[c for c in names if c in df.columns])
DropColumns(frame, names) ==
    Frame(SelectSeq(frame.cols, LAMBDA c : c \notin names),
          [i \in DOMAIN frame.rows |->
              [c \in Range(frame.cols) \ names |-> frame.rows[i][c]]])

\* DataFrame.select_dtypes(include=['object', 'bool']): a column holding any
\* string or bool cell has dtype object or bool; an all-number column does not.
IsObjectOrBool(frame, c) ==
    \E i \in DOMAIN frame.rows : frame.rows[i][c].t \in {"str", "bool"}

\* pd.DataFrame([input_data]): one row, columns in the mapping's key order.
\* A mapping is a sequence of <<key, value>> pairs (Python dicts are ordered).
Keys(mapping) == [i \in DOMAIN mapping |-> mapping[i][1]]

Lookup(mapping, k) == (CHOOSE p \in Range(mapping) : p[1] = k)[2]

FrameOfMapping(mapping) ==
    Frame(Keys(mapping),
          <<[c \in Range(Keys(mapping)) |-> Lookup(mapping, c)]>>)

(***************************************************************************)
(* sklearn LabelEncoder and StandardScaler, as train.py and server.py use  *)
(* them.                                                                   *)
(***************************************************************************)

\* np.unique: the distinct strings in sorted order.
RECURSIVE SortedUnique(_)
SortedUnique(S) ==
    IF S = {} THEN <<>>
    ELSE LET m == CHOOSE x \in S : \A z \in S : LexLeq(x, z)
         IN  <<m>> \o SortedUnique(S \ {m})

\* A buggy encoder that keeps the values in first-seen order, unsorted.
RECURSIVE FirstSeen(_)
FirstSeen(values) ==
    IF values = <<>> THEN <<>>
    ELSE LET rest == FirstSeen(SubSeq(values, 1, Len(values) - 1))
             last == values[Len(values)]
         IN  IF last \in Range(rest) THEN rest ELSE Append(rest, last)

LabelEncoderFitUnsorted(values) == FirstSeen(values)

\* LabelEncoder.fit: classes_ of a sequence of strings.
LabelEncoderFit(values) == SortedUnique(Range(values))

\* LabelEncoder.transform of one string known to be in classes_: its index, from 0.
ClassIndex(classes, s) == (CHOOSE i \in DOMAIN classes : classes[i] = s) - 1

\* LabelEncoder.transform raises ValueError on a string outside classes_.
TransformRaises(classes, s) == s \notin Range(classes)

\* StandardScaler.fit: per column the count, sum and sum of squares, which
\* determine mean_ and scale_ exactly.
RECURSIVE SumSeq(_)
SumSeq(s) == IF s = <<>> THEN 0 ELSE Head(s) + SumSeq(Tail(s))

ScalerFit(X) ==
    [fitted |-> TRUE,
     cols   |-> X.cols,
     stat   |-> [c \in Range(X.cols) |->
                   LET xs == [i \in DOMAIN X.rows |-> X.rows[i][c].n]
                   IN  [n   |-> Len(xs),
                        sum |-> SumSeq(xs),
                        sq  |-> SumSeq([i \in DOMAIN xs |-> xs[i] * xs[i]])]]]

\* StandardScaler() before fit.
UnfittedScaler == [fitted |-> FALSE, cols |-> <<>>, stat |-> <<>>]

\* StandardScaler.transform raises when it is not fitted, when the frame's
\* columns are not the fitted feature names in the fitted order, or when a
\* cell is text that is no number.
ScalerRaises(scaler, X) ==
    \/ ~scaler.fitted
    \/ X.cols # scaler.cols
    \/ \E i \in DOMAIN X.rows : \E c \in Range(X.cols) : X.rows[i][c].t = "str"

\* One scaled cell (x - mean) / scale as an exact fraction: with mean = sum/n
\* and variance = (n*sq - sum^2)/n^2 it is num / sqrt(den2) when den2 > 0, and
\* num / n when the column was constant (scale_ is then 1).
ScaledCell(st, x) ==
    [num |-> st.n * x - st.sum, den2 |-> st.n * st.sq - st.sum * st.sum, n |-> st.n]

ScalerTransform(scaler, X) ==
    [i \in DOMAIN X.rows |->
        [c \in Range(X.cols) |-> ScaledCell(scaler.stat[c], X.rows[i][c].n)]]

(***************************************************************************)
(* train.py: PlantDiseaseModel                                             *)
(***************************************************************************)

drop_cols == {"sample_id", "timestamp", "other_notes", "severity"}

target_column == "label_disease"

\* PlantDiseaseModel.__init__: the fields preprocess reads and writes.
\* The encoding loop of preprocess, one cell of column c.
\* fit: fit_transform, the index of the cell's string in the new classes_.
\* reuse: only columns select_dtypes picked AND that have an encoder are
\* touched; there a string outside classes_ becomes -1.  Every other cell is
\* passed through as it is.
EncodeCell(fit, categorical_cols, encoders, c, v) ==
    IF c \notin categorical_cols THEN v
    ELSE IF fit THEN Num(ClassIndex(encoders[c], AsStr(v)))
    ELSE IF c \notin DOMAIN encoders THEN v
    ELSE IF AsStr(v) \in Range(encoders[c]) THEN Num(ClassIndex(encoders[c], AsStr(v)))
    ELSE Num(-1)

\* PlantDiseaseModel.preprocess(df, fit).  Returns the encoded frame before
\* scaling (X), the scaled rows (X_scaled), y, the updated pipeline fields
\* and whether scaler.transform raised.
preprocess(self, df, fit) ==
    LET feature_df == DropColumns(df, drop_cols)
        hasTarget  == target_column \in Range(feature_df.cols)
        X0 == IF hasTarget THEN DropColumns(feature_df, {target_column}) ELSE feature_df
        y  == IF hasTarget
              THEN [i \in DOMAIN df.rows |-> df.rows[i][target_column].s]
              ELSE None
        feature_columns == IF fit THEN X0.cols ELSE self.feature_columns
        categorical_cols == {c \in Range(X0.cols) : IsObjectOrBool(X0, c)}
        fitted == [c \in categorical_cols |->
                     LabelEncoderFit([i \in DOMAIN X0.rows |-> AsStr(X0.rows[i][c])])]
        label_encoders ==
            IF fit
            THEN [c \in DOMAIN self.label_encoders \cup categorical_cols |->
                     IF c \in categorical_cols THEN fitted[c] ELSE self.label_encoders[c]]
            ELSE self.label_encoders
        X == Frame(X0.cols,
                   [i \in DOMAIN X0.rows |->
                       [c \in Range(X0.cols) |->
                           EncodeCell(fit, categorical_cols, label_encoders, c, X0.rows[i][c])]])
        scaler == IF fit THEN ScalerFit(X) ELSE self.scaler
        raised == ScalerRaises(scaler, X)
    IN  [raised   |-> raised,
         X        |-> X,
         X_scaled |-> IF raised THEN None ELSE ScalerTransform(scaler, X),
         y        |-> y,
         self     |-> [label_encoders |-> label_encoders, scaler |-> scaler,
                       feature_columns |-> feature_columns]]

(***************************************************************************)
(* The classifier.  GridSearchCV over RandomForestClassifier is library    *)
(* code; the fitted estimator is modelled as one member of its hypothesis  *)
(* class, a depth-1 tree on one feature split at the training mean (scaled *)
(* value 0), whose leaves hold the training label counts.  What the        *)
(* server relies on is kept: classes_ is the sorted label set, and         *)
(* predict / predict_proba are pure functions of the fitted estimator.     *)
(***************************************************************************)

Count(S) == Cardinality(S)

LeafCounts(classes, Xs, y, idx, feature, right) ==
    [k \in DOMAIN classes |->
        Count({i \in idx : y[i] = classes[k] /\ ((Xs[i][feature].num > 0) = right)})]

\* PlantDiseaseModel.train(X_train, y_train), given the feature grid search settled on.
train(Xs, y, idx, feature) ==
    LET classes == SortedUnique({y[i] : i \in idx})
    IN  [classes_ |-> classes,
         feature  |-> feature,
         all      |-> [k \in DOMAIN classes |-> Count({i \in idx : y[i] = classes[k]})],
         left     |-> LeafCounts(classes, Xs, y, idx, feature, FALSE),
         right    |-> LeafCounts(classes, Xs, y, idx, feature, TRUE)]

\* model.predict_proba(X)[0]: per class a count out of a common total.
predict_proba(model, xrow) ==
    LET side == IF xrow[model.feature].num > 0 THEN model.right ELSE model.left
        leaf == IF SumSeq(side) = 0 THEN model.all ELSE side
    IN  [counts |-> leaf, total |-> SumSeq(leaf)]

\* model.predict(X)[0]: the first class of highest probability.
predict(model, xrow) ==
    LET p == predict_proba(model, xrow).counts
        k == CHOOSE a \in DOMAIN p :
                /\ \A b \in DOMAIN p : p[b] <= p[a]
                /\ \A b \in DOMAIN p : p[b] = p[a] => a <= b
    IN  model.classes_[k]

\* PlantDiseaseModel.evaluate: the test rows predicted right, out of how many.
evaluate(model, Xs, y, test) ==
    [correct |-> Count({i \in test : predict(model, Xs[i]) = y[i]}),
     total   |-> Count(test)]

(***************************************************************************)
(* server.py: preprocess_input                                             *)
(***************************************************************************)

\* A preprocess_input that selects df[feature_columns] without filling in the
\* missing columns first: the selection raises KeyError.
preprocess_input_unfilled(input_data, model_data) ==
    LET df == FrameOfMapping(input_data)
        feature_columns == model_data.feature_columns
        present == SelectSeq(feature_columns, LAMBDA c : c \in Range(df.cols))
        X == Frame(present, <<[c \in Range(present) |-> df.rows[1][c]]>>)
    IN  [raised   |-> TRUE,
         selected |-> X,
         X        |-> X,
         X_scaled |-> None]

\* preprocess_input(input_data, model_data): the one-row frame as selected
\* before encoding, the frame before scaling (X), its scaled row, and whether
\* scaler.transform raised.
preprocess_input(input_data, model_data) ==
    LET df == FrameOfMapping(input_data)
        feature_columns == model_data.feature_columns
        label_encoders  == model_data.label_encoders
        \* for col in feature_columns: if col not in df.columns: df[col] = 0
        filled == [c \in Range(df.cols) \cup Range(feature_columns) |->
                      IF c \in Range(df.cols) THEN df.rows[1][c] ELSE Num(0)]
        \* for col, encoder in label_encoders.items(): try transform, except -1
        encoded == [c \in Range(feature_columns) |->
                      IF c \notin DOMAIN label_encoders THEN filled[c]
                      ELSE IF TransformRaises(label_encoders[c], AsStr(filled[c]))
                           THEN Num(-1)
                           ELSE Num(ClassIndex(label_encoders[c], AsStr(filled[c])))]
        \* df = df[feature_columns]
        X == Frame(feature_columns, <<encoded>>)
        raised == ScalerRaises(model_data.scaler, X)
    IN  [raised   |-> raised,
         selected |-> Frame(feature_columns, <<[c \in Range(feature_columns) |-> filled[c]]>>),
         X        |-> X,
         X_scaled |-> IF raised THEN None ELSE ScalerTransform(model_data.scaler, X)[1]]

(***************************************************************************)
(* State                                                                   *)
(***************************************************************************)

VARIABLES
    \* train.py main(): position, the CSV it reads, its locals, the
    \* PlantDiseaseModel instance, and the two files it writes.
    main_pc, dataset_csv, main_df, main_X, main_y, main_split, main_metrics,
    pdm, model_file, metrics_file,
    \* one Observation handed to the two consumers of model_file
    obs, served, reused,
    \* server.py: the module globals, the db.predictions collection, the wall
    \* clock, the uuid4 values drawn so far, the get_stats request in flight
    \* and the last response sent
    model_data, treatments, predictions, clock, uuids, stats, response,
    \* an observer of the Prediction Service: one predict call it has noted
    noted,
    \* augment_data.py augment_dataset: position, the two files, target_size
    \* and the locals df and augmented_samples
    aug_pc, input_file, target_size, aug_df, augmented_samples, output_file

trainVars == <<main_pc, dataset_csv, main_df, main_X, main_y, main_split, main_metrics,
               pdm, model_file, metrics_file, obs, served, reused>>

serverVars == <<model_data, treatments, predictions, clock, uuids, stats, response, noted>>

augVars == <<aug_pc, input_file, target_size, aug_df, augmented_samples, output_file>>

vars == <<trainVars, serverVars, augVars>>

(***************************************************************************)
(* train.py: main()                                                        *)
(***************************************************************************)

\* Rows a dataset is drawn from, and how many it may hold.
MaxRows == 6

\* The CSV header dataset.py writes, cut to one text, one bool and one
\* number feature between the dropped and the label columns.
CsvColumns == <<"sample_id", "leaf_color", "lesion_present", "lesion_count", "label_disease">>

PoolRow(k) ==
    IF k = 1 THEN [leaf_color |-> Str(Green), lesion_present |-> Bool(FALSE),
                   lesion_count |-> Num(0), label_disease |-> Str(Healthy)]
    ELSE IF k = 2 THEN [leaf_color |-> Str(Yellow), lesion_present |-> Bool(TRUE),
                        lesion_count |-> Num(3), label_disease |-> Str(Early_Blight)]
    ELSE [leaf_color |-> Str(Yellow), lesion_present |-> Bool(FALSE),
          lesion_count |-> Num(0), label_disease |-> Str(Healthy)]

PoolKinds == {1, 2, 3}

\* generate_sample(sample_id): a row of kind k with its "S<i>" sample id.
CsvRow(i, k) ==
    [c \in Range(CsvColumns) |->
        IF c = "sample_id" THEN Str(<<83>> \o Digits(i)) ELSE PoolRow(k)[c]]

Datasets ==
    UNION {{Frame(CsvColumns, [i \in 1..n |-> CsvRow(i, ks[i])]) : ks \in [1..n -> PoolKinds]} :
              n \in 1..MaxRows}

\* train_test_split(test_size=0.2): n_test = ceil(0.2 * n), n_train = n - n_test.
NTest(n) == (n + 4) \div 5

LabelsOf(y) == Range(y)

ClassRows(y, c) == {i \in DOMAIN y : y[i] = c}

\* stratify=y: StratifiedShuffleSplit refuses a class with one member and a
\* train or test side smaller than the number of classes.
SplitRaises(y) ==
    LET n == Len(y)
    IN  \/ n - NTest(n) = 0
        \/ \E c \in LabelsOf(y) : Count(ClassRows(y, c)) < 2
        \/ NTest(n) < Count(LabelsOf(y))
        \/ n - NTest(n) < Count(LabelsOf(y))

\* The test sides the shuffle can produce: NTest(n) rows, each class's share
\* within one row of proportional.  Which one random_state=42 picks is the
\* library's business.
TestSides(y) ==
    LET n == Len(y)
    IN  {T \in SUBSET (1..n) :
            /\ Count(T) = NTest(n)
            /\ \A c \in LabelsOf(y) :
                  LET t == Count(T \cap ClassRows(y, c))
                      share == NTest(n) * Count(ClassRows(y, c))
                  IN  t * n > share - n /\ t * n < share + n}

\* joblib.dump of the fitted pipeline: what save_model writes and both
\* load_model and the server read back.
Artifact(self) ==
    [model |-> self.model[1], label_encoders |-> self.label_encoders,
     scaler |-> self.scaler, feature_columns |-> self.feature_columns]

NewModel == [model |-> None, label_encoders |-> <<>>, scaler |-> UnfittedScaler,
             feature_columns |-> None]

MainLoadData ==
    /\ UNCHANGED <<serverVars, augVars>>
    /\ main_pc = "start"
    /\ main_df' = dataset_csv
    /\ main_pc' = "loaded"
    /\ UNCHANGED <<dataset_csv, main_X, main_y, main_split, main_metrics, pdm,
                   model_file, metrics_file, obs, served, reused>>

\* X, y = model.preprocess(df, fit=True): on the whole of df.
MainPreprocess ==
    /\ UNCHANGED <<serverVars, augVars>>
    /\ main_pc = "loaded"
    /\ LET r == preprocess(pdm, main_df, TRUE)
       IN  /\ main_X' = r.X_scaled
           /\ main_y' = r.y
           /\ pdm' = [pdm EXCEPT !.label_encoders = r.self.label_encoders,
                                 !.scaler = r.self.scaler,
                                 !.feature_columns = r.self.feature_columns]
    /\ main_pc' = "preprocessed"
    /\ UNCHANGED <<dataset_csv, main_df, main_split, main_metrics,
                   model_file, metrics_file, obs, served, reused>>

\* train_test_split(X, y, test_size=0.2, random_state=42, stratify=y)
MainSplit ==
    /\ UNCHANGED <<serverVars, augVars>>
    /\ main_pc = "preprocessed"
    /\ \/ /\ SplitRaises(main_y)
          /\ main_pc' = "crashed"
          /\ UNCHANGED main_split
       \/ /\ ~SplitRaises(main_y)
          /\ \E T \in TestSides(main_y) :
                main_split' = [train |-> (DOMAIN main_y) \ T, test |-> T]
          /\ main_pc' = "split"
    /\ UNCHANGED <<dataset_csv, main_df, main_X, main_y, main_metrics, pdm,
                   model_file, metrics_file, obs, served, reused>>

MainTrain ==
    /\ UNCHANGED <<serverVars, augVars>>
    /\ main_pc = "split"
    /\ \E f \in Range(pdm.feature_columns) :
          pdm' = [pdm EXCEPT !.model = Some(train(main_X, main_y, main_split.train, f))]
    /\ main_pc' = "trained"
    /\ UNCHANGED <<dataset_csv, main_df, main_X, main_y, main_split, main_metrics,
                   model_file, metrics_file, obs, served, reused>>

MainEvaluate ==
    /\ UNCHANGED <<serverVars, augVars>>
    /\ main_pc = "trained"
    /\ main_metrics' = Some(evaluate(pdm.model[1], main_X, main_y, main_split.test))
    /\ main_pc' = "evaluated"
    /\ UNCHANGED <<dataset_csv, main_df, main_X, main_y, main_split, pdm,
                   model_file, metrics_file, obs, served, reused>>

MainSaveModel ==
    /\ UNCHANGED <<serverVars, augVars>>
    /\ main_pc = "evaluated"
    /\ model_file' = Some(Artifact(pdm))
    /\ main_pc' = "saved"
    /\ UNCHANGED <<dataset_csv, main_df, main_X, main_y, main_split, main_metrics, pdm,
                   metrics_file, obs, served, reused>>

\* json.dump of the metrics, then main returns and its locals are gone.
MainSaveMetrics ==
    /\ UNCHANGED <<serverVars, augVars>>
    /\ main_pc = "saved"
    /\ metrics_file' = Some([metrics |-> main_metrics[1],
                             train_samples |-> Count(main_split.train),
                             test_samples |-> Count(main_split.test)])
    /\ main_pc' = "done"
    /\ main_df' = None /\ main_X' = None /\ main_y' = None
    /\ main_split' = None /\ main_metrics' = None /\ pdm' = NewModel
    /\ UNCHANGED <<dataset_csv, model_file, obs, served, reused>>

(***************************************************************************)
(* The artifact's two consumers on one Observation                         *)
(***************************************************************************)

\* PlantDiseaseModel.load_model into a fresh instance.
load_model(file) ==
    [model |-> Some(file.model), label_encoders |-> file.label_encoders,
     scaler |-> file.scaler, feature_columns |-> file.feature_columns]

\* Input mappings: the three features with seen, unseen and number-typed
\* values, in the trained key order, reversed, with a key the pipeline never
\* saw, or with a numeric or a categorical feature left out.
ObservationValues ==
    {<<lc, lp, n>> : lc \in {Str(Green), Str(Brown)},
                     lp \in {Bool(FALSE), Bool(TRUE), Num(1)},
                     n \in {Num(0), Num(3)}}

Shaped(k, v) ==
    LET base == <<<<"leaf_color", v[1]>>, <<"lesion_present", v[2]>>, <<"lesion_count", v[3]>>>>
    IN  IF k = 1 THEN base
        ELSE IF k = 2 THEN <<base[3], base[2], base[1]>>
        ELSE IF k = 3 THEN Append(base, <<"farm_id", Num(7)>>)
        ELSE IF k = 4 THEN <<base[1], base[2]>>
        ELSE <<base[2], base[3]>>

Observations == {Shaped(k, v) : k \in 1..5, v \in ObservationValues}

Observe ==
    /\ UNCHANGED <<serverVars, augVars>>
    /\ model_file # None
    /\ obs = None \/ (served # None /\ reused # None)
    /\ \E o \in Observations : obs' = Some(o)
    /\ served' = None
    /\ reused' = None
    /\ UNCHANGED <<main_pc, dataset_csv, main_df, main_X, main_y, main_split, main_metrics,
                   pdm, model_file, metrics_file>>

\* server.py: preprocess_input(input_dict, model_data) with model_data = joblib.load(model_path)
ServePreprocess ==
    /\ UNCHANGED <<serverVars, augVars>>
    /\ obs # None /\ served = None
    /\ served' = Some(preprocess_input(obs[1], model_file[1]))
    /\ UNCHANGED <<main_pc, dataset_csv, main_df, main_X, main_y, main_split, main_metrics,
                   pdm, model_file, metrics_file, obs, reused>>

\* train.py: load_model(model_path); preprocess(pd.DataFrame([obs]), fit=False)
ReusePreprocess ==
    /\ UNCHANGED <<serverVars, augVars>>
    /\ obs # None /\ reused = None
    /\ LET r == preprocess(load_model(model_file[1]), FrameOfMapping(obs[1]), FALSE)
       IN  reused' = Some([raised |-> r.raised, X |-> r.X, X_scaled |-> r.X_scaled])
    /\ UNCHANGED <<main_pc, dataset_csv, main_df, main_X, main_y, main_split, main_metrics,
                   pdm, model_file, metrics_file, obs, served>>

TrainInit ==
    /\ main_pc = "start"
    /\ dataset_csv \in Datasets
    /\ main_df = None /\ main_X = None /\ main_y = None
    /\ main_split = None /\ main_metrics = None
    /\ pdm = NewModel
    /\ model_file = None /\ metrics_file = None
    /\ obs = None /\ served = None /\ reused = None

TrainNext ==
    \/ MainLoadData
    \/ MainPreprocess
    \/ MainSplit
    \/ MainTrain
    \/ MainEvaluate
    \/ MainSaveModel
    \/ MainSaveMetrics

\* The artifacts main() can leave in model_file for dataset d: every test
\* side the split can produce, every feature the search can settle on.
ArtifactsOf(d) ==
    LET r == preprocess(NewModel, d, TRUE)
    IN  IF SplitRaises(r.y) THEN {}
        ELSE {[model |-> train(r.X_scaled, r.y, (DOMAIN r.y) \ T, f),
               label_encoders |-> r.self.label_encoders,
               scaler |-> r.self.scaler,
               feature_columns |-> r.self.feature_columns] :
                 T \in TestSides(r.y), f \in Range(r.self.feature_columns)}

TrainedArtifacts == UNION {ArtifactsOf(d) : d \in Datasets}

EncodeInit ==
    /\ main_pc = "done"
    /\ dataset_csv = None
    /\ main_df = None /\ main_X = None /\ main_y = None
    /\ main_split = None /\ main_metrics = None
    /\ pdm = NewModel
    /\ model_file \in {Some(a) : a \in TrainedArtifacts}
    /\ metrics_file = None
    /\ obs = None /\ served = None /\ reused = None

EncodeNext ==
    \/ Observe
    \/ ServePreprocess
    \/ ReusePreprocess

(***************************************************************************)
(* server.py: time, the record store and the handlers                      *)
(***************************************************************************)

\* The clock counts half weeks; timedelta(days=7) is two of them.
WeekTicks == 2

\* How far the clock runs, how many records are created, and the largest
\* limit and skip a list request carries.
MaxClock == 3

MaxCreates == 2

MaxPage == 2

\* datetime.now(timezone.utc): the clock's tick and a sub-second part, which
\* is 0 or not.
Now(us) == [t |-> clock, us |-> us]

SubSeconds == {0, 5}

TwoDigits(n) == <<48 + (n \div 10), 48 + (n % 10)>>

\* datetime.isoformat(): fixed-width date and time (here the two-digit tick),
\* then the fraction, which is left out when it is zero ("." is 46), then
\* the UTC offset ("+" is 43).
isoformat(dt) ==
    TwoDigits(dt.t) \o (IF dt.us = 0 THEN <<>> ELSE <<46, 48 + dt.us>>) \o <<43>>

\* datetime.fromisoformat()
fromisoformat(str) ==
    [t  |-> (str[1] - 48) * 10 + (str[2] - 48),
     us |-> IF str[3] = 46 THEN str[4] - 48 ELSE 0]

\* SubmissionCreate bodies: crop, predicted label and confidence (in
\* hundredths); the other Observation fields are carried along the same way.
SubmissionBodies ==
    {[crop_type |-> "Tomato", predicted_disease |-> "Healthy", confidence |-> 90],
     [crop_type |-> "Rice", predicted_disease |-> "Brown_Spot", confidence |-> 60]}

\* A document a previous process left in the collection, older than a week.
OldDocument ==
    [id |-> 0, crop_type |-> "Tomato", predicted_disease |-> "Late_Blight",
     confidence |-> 75, timestamp |-> isoformat([t |-> 0, us |-> 0])]

RecordIds == 0..MaxCreates

\* The document with its timestamp parsed back, as get_records and get_record return it.
Parsed(doc) == [doc EXCEPT !.timestamp = fromisoformat(doc.timestamp)]

\* find({}).sort("timestamp", -1): the orders the store may return, newest
\* timestamp string first, ties in any order.
RECURSIVE Orders(_)
Orders(S) ==
    IF S = {} THEN {<<>>}
    ELSE UNION {{<<d>> \o rest : rest \in Orders(S \ {d})} :
                  d \in {x \in S : \A z \in S : LexLeq(z.timestamp, x.timestamp)}}

\* The same query sorted oldest first.
RECURSIVE OrdersAscending(_)
OrdersAscending(S) ==
    IF S = {} THEN {<<>>}
    ELSE UNION {{<<d>> \o rest : rest \in OrdersAscending(S \ {d})} :
                  d \in {x \in S : \A z \in S : LexLeq(x.timestamp, z.timestamp)}}

SortedByRecency(S) == Orders(S)

\* .skip(skip).limit(limit).to_list(limit) of a sorted cursor, for skip >= 0
\* and limit >= 0 (to_list(0) yields no documents).
Page(sorted, limit, skip) == SubSeq(sorted, skip + 1, Min(Len(sorted), skip + limit))

\* Cursor.skip and to_list raise ValueError on a negative number.
PageRaises(limit, skip) == limit < 0 \/ skip < 0

\* {"$group": {"_id": "$field", "count": {"$sum": 1}}} read into a dict.
GroupCount(docs, field) ==
    [k \in {d[field] : d \in docs} |-> Cardinality({d \in docs : d[field] = k})]

RECURSIVE SumOver(_, _)
SumOver(docs, field) ==
    IF docs = {} THEN 0
    ELSE LET d == CHOOSE x \in docs : TRUE
         IN  d[field] + SumOver(docs \ {d}, field)

\* {"$group": {"_id": None, "avg_confidence": {"$avg": "$confidence"}}}.to_list(1):
\* no document over an empty collection, else the average as sum / count.
AvgPipeline(docs) ==
    IF docs = {} THEN <<>>
    ELSE <<[sum |-> SumOver(docs, "confidence"), count |-> Cardinality(docs)]>>

\* round(avg_confidence, 4) with confidences in hundredths: ten-thousandths.
Round4(avg) == (2 * avg.sum * 100 + avg.count) \div (2 * avg.count)

\* avg_result[0]["avg_confidence"] if avg_result else 0.0, rounded.
AvgConfidence(avg_result) == IF avg_result = <<>> THEN 0 ELSE Round4(avg_result[1])

\* count_documents({"timestamp": {"$gte": week_ago}}): strings compared as strings.
RecentCount(docs, week_ago) ==
    Cardinality({d \in docs : LexLeq(week_ago, d.timestamp)})

\* The last request (its handler and arguments) and the response it got.
Reply(op, args, status, body) ==
    Some([op |-> op, args |-> args, status |-> status, body |-> body])

StatsIdle ==
    [pc |-> "idle", nonempty |-> FALSE, total |-> 0, disease_distribution |-> <<>>,
     crops_analyzed |-> <<>>, avg_confidence |-> 0, week_ago |-> <<>>]

\* The artifacts the server may find at model_path: those of a dataset with
\* three Healthy and three Early_Blight rows, split on lesion_count.
ScenarioDataset ==
    Frame(CsvColumns, [i \in 1..6 |-> CsvRow(i, <<1, 3, 1, 2, 2, 2>>[i])])

LoadableArtifacts == {a \in ArtifactsOf(ScenarioDataset) : a.model.feature = "lesion_count"}

\* treatments.json, keyed by disease label; {} when it could not be read.
TreatmentTable == [l \in {Early_Blight} |-> "Apply fungicide"]

FallbackTreatment == "No treatment information available."

\* PredictionInput bodies, in the model's field order (model_dump keeps it).
PredictionInputs ==
    {<<<<"leaf_color", Str(lc)>>, <<"lesion_present", Bool(b)>>, <<"lesion_count", Num(n)>>>> :
        lc \in {Green, Brown}, b \in BOOLEAN, n \in {0, 3}}

MaxOf(counts) == CHOOSE m \in Range(counts) : \A x \in Range(counts) : x <= m

\* A predict handler that loads the artifact when it finds none.
predict_disease_lazy_load(input_data, us) ==
    [reply |-> Reply("predict", input_data, 200, "loaded"),
     model_data |-> IF model_data = None
                    THEN Some(CHOOSE a \in LoadableArtifacts : TRUE) ELSE model_data,
     treatments |-> treatments,
     predictions |-> predictions]

\* A predict handler that also files its result in the record store.
predict_disease_saving(input_data, us) ==
    [reply |-> Reply("predict", input_data, 200, "saved"),
     model_data |-> model_data,
     treatments |-> treatments,
     predictions |-> predictions \cup
        {[id |-> uuids + 1, crop_type |-> "Tomato", predicted_disease |-> "Healthy",
          confidence |-> 90, timestamp |-> isoformat(Now(us))]}]

\* A predict handler whose confidence moves with the number of stored records.
predict_disease_drifting(input_data, us) ==
    [reply |->
        IF model_data = None THEN Reply("predict", input_data, 500, "Model not loaded")
        ELSE Reply("predict", input_data, 200,
                   [prediction |-> Healthy,
                    confidence |-> [num |-> Cardinality(predictions), den |-> 3],
                    all_probabilities |-> <<>>,
                    treatment |-> FallbackTreatment,
                    timestamp |-> isoformat(Now(us))]),
     model_data |-> model_data,
     treatments |-> treatments,
     predictions |-> predictions]

\* predict_disease: the response, and the globals and the collection as the
\* handler leaves them.
predict_disease(input_data, us) ==
    [reply |->
        IF model_data = None THEN Reply("predict", input_data, 500, "Model not loaded")
        ELSE LET r == preprocess_input(input_data, model_data[1])
             IN  IF r.raised THEN Reply("predict", input_data, 500, "Prediction failed")
                 ELSE LET fitted == model_data[1].model
                          prediction == predict(fitted, r.X_scaled)
                          probabilities == predict_proba(fitted, r.X_scaled)
                      IN  Reply("predict", input_data, 200,
                                [prediction |-> prediction,
                                 confidence |-> [num |-> MaxOf(probabilities.counts),
                                                 den |-> probabilities.total],
                                 all_probabilities |->
                                    [c \in Range(fitted.classes_) |->
                                        [num |-> probabilities.counts[ClassIndex(fitted.classes_, c) + 1],
                                         den |-> probabilities.total]],
                                 treatment |-> IF prediction \in DOMAIN treatments
                                               THEN treatments[prediction]
                                               ELSE FallbackTreatment,
                                 timestamp |-> isoformat(Now(us))]),
     model_data |-> model_data,
     treatments |-> treatments,
     predictions |-> predictions]

\* The observer, when it is observing and has noted no call yet, may note
\* this one, request and response.
PredictDisease ==
    /\ response = None
    /\ UNCHANGED <<trainVars, augVars>>
    /\ \E input_data \in PredictionInputs : \E us \in SubSeconds :
          LET r == predict_disease(input_data, us)
          IN  /\ response' = r.reply
              /\ model_data' = r.model_data
              /\ treatments' = r.treatments
              /\ predictions' = r.predictions
              /\ \E note \in BOOLEAN :
                    noted' = IF noted.on /\ noted.call = None /\ note
                             THEN [noted EXCEPT !.call =
                                     Some(r.reply[1])]
                             ELSE noted
    /\ UNCHANGED <<clock, uuids, stats>>

\* GET /api/
Root ==
    /\ response = None
    /\ UNCHANGED <<trainVars, augVars, noted>>
    /\ response' = Reply("root", None, 200, "running")
    /\ UNCHANGED <<model_data, treatments, predictions, clock, uuids, stats>>

\* GET /api/diseases
GetDiseases ==
    /\ response = None
    /\ UNCHANGED <<trainVars, augVars, noted>>
    /\ response' = IF model_data = None THEN Reply("diseases", None, 500, "Model not loaded")
                   ELSE Reply("diseases", None, 200,
                              [diseases |-> model_data[1].model.classes_,
                               count |-> Len(model_data[1].model.classes_)])
    /\ UNCHANGED <<model_data, treatments, predictions, clock, uuids, stats>>

\* POST /api/records: SubmissionRecord(**body) draws the id and the timestamp,
\* insert_one stores the document with the timestamp as an ISO string.
CreateRecord ==
    /\ response = None
    /\ UNCHANGED <<trainVars, augVars, noted>>
    /\ uuids < MaxCreates
    /\ uuids' = uuids + 1
    /\ \E body \in SubmissionBodies : \E us \in SubSeconds : \E store_ok \in BOOLEAN :
          LET record_obj == [id |-> uuids + 1, crop_type |-> body.crop_type,
                             predicted_disease |-> body.predicted_disease,
                             confidence |-> body.confidence, timestamp |-> Now(us)]
              doc == [record_obj EXCEPT !.timestamp = isoformat(record_obj.timestamp)]
          IN  IF store_ok
              THEN /\ predictions' = predictions \cup {doc}
                   /\ response' = Reply("create", body, 200, record_obj)
              ELSE /\ predictions' = predictions
                   /\ response' = Reply("create", body, 500, "Failed to save record")
    /\ UNCHANGED <<model_data, treatments, clock, stats>>

\* get_records(limit, skip)
get_records(limit, skip, store_ok, sorted) ==
    IF ~store_ok \/ PageRaises(limit, skip)
    THEN Reply("list", [limit |-> limit, skip |-> skip], 500, "Failed to fetch records")
    ELSE Reply("list", [limit |-> limit, skip |-> skip], 200, [i \in DOMAIN Page(sorted, limit, skip) |->
                                Parsed(Page(sorted, limit, skip)[i])])

GetRecords ==
    /\ response = None
    /\ UNCHANGED <<trainVars, augVars, noted>>
    /\ \E limit \in (-1)..MaxPage : \E skip \in (-1)..MaxPage : \E store_ok \in BOOLEAN :
       \E sorted \in SortedByRecency(predictions) :
          response' = get_records(limit, skip, store_ok, sorted)
    /\ UNCHANGED <<model_data, treatments, predictions, clock, uuids, stats>>

\* What a get or delete request is noted with: the id asked for, and whether
\* the store answered the request.
ById(record_id, store_ok) == [record_id |-> record_id, store_ok |-> store_ok]

\* A get_record whose catch-all handler also catches its own 404.
get_record_swallowing(record_id, store_ok) ==
    IF store_ok /\ \E d \in predictions : d.id = record_id
    THEN Reply("get", ById(record_id, store_ok), 200, Parsed(CHOOSE d \in predictions : d.id = record_id))
    ELSE Reply("get", ById(record_id, store_ok), 500, "Failed to fetch record")

\* get_record(record_id): find_one, 404 when there is none; the HTTPException
\* is re-raised, any other exception becomes a 500.
get_record(record_id, store_ok) ==
    IF ~store_ok THEN Reply("get", ById(record_id, store_ok), 500, "Failed to fetch record")
    ELSE IF ~\E d \in predictions : d.id = record_id
         THEN Reply("get", ById(record_id, store_ok), 404, "Record not found")
         ELSE Reply("get", ById(record_id, store_ok), 200,
                    Parsed(CHOOSE d \in predictions : d.id = record_id))

GetRecord ==
    /\ response = None
    /\ UNCHANGED <<trainVars, augVars, noted>>
    /\ \E record_id \in RecordIds : \E store_ok \in BOOLEAN :
          response' = get_record(record_id, store_ok)
    /\ UNCHANGED <<model_data, treatments, predictions, clock, uuids, stats>>

\* A delete_record that calls delete_many({}) where the code calls delete_one.
delete_record_many(record_id, store_ok) ==
    IF ~store_ok
    THEN [reply |-> Reply("delete", ById(record_id, store_ok), 500, "Failed to delete record"),
          predictions |-> predictions]
    ELSE IF ~\E d \in predictions : d.id = record_id
         THEN [reply |-> Reply("delete", ById(record_id, store_ok), 404, "Record not found"),
               predictions |-> predictions]
         ELSE [reply |-> Reply("delete", ById(record_id, store_ok), 200, "Record deleted successfully"),
               predictions |-> {}]

\* delete_record(record_id): delete_one, 404 when deleted_count is 0.
delete_record(record_id, store_ok) ==
    IF ~store_ok
    THEN [reply |-> Reply("delete", ById(record_id, store_ok), 500, "Failed to delete record"),
          predictions |-> predictions]
    ELSE IF ~\E d \in predictions : d.id = record_id
         THEN [reply |-> Reply("delete", ById(record_id, store_ok), 404, "Record not found"),
               predictions |-> predictions]
         ELSE [reply |-> Reply("delete", ById(record_id, store_ok), 200, "Record deleted successfully"),
               predictions |-> predictions \ {CHOOSE d \in predictions : d.id = record_id}]

DeleteRecord ==
    /\ response = None
    /\ UNCHANGED <<trainVars, augVars, noted>>
    /\ \E record_id \in RecordIds : \E store_ok \in BOOLEAN :
          LET r == delete_record(record_id, store_ok)
          IN  /\ response' = r.reply
              /\ predictions' = r.predictions
    /\ UNCHANGED <<model_data, treatments, clock, uuids, stats>>

(***************************************************************************)
(* get_stats: five store reads, each awaited, so that other requests run   *)
(* between them.  "nonempty" notes whether any of the request's reads so   *)
(* far ran on a collection that held a document.                           *)
(***************************************************************************)

StatsFailed == Reply("stats", None, 500, "Failed to fetch stats")

\* A response that takes avg_result[0] without the "if avg_result" guard:
\* the IndexError on an empty result is caught and becomes a 500.
StatsResponseUnguarded(locals, avg_result, recent) ==
    IF avg_result = <<>> THEN StatsFailed
    ELSE Reply("stats", None, 200,
               [total_predictions |-> locals.total,
                disease_distribution |-> locals.disease_distribution,
                avg_confidence |-> Round4(avg_result[1]),
                recent_predictions |-> recent,
                crops_analyzed |-> locals.crops_analyzed])

\* StatsResponse(...) built from the handler's locals.
StatsResponse(locals, avg_result, recent) ==
    Reply("stats", None, 200,
          [total_predictions |-> locals.total,
           disease_distribution |-> locals.disease_distribution,
           avg_confidence |-> AvgConfidence(avg_result),
           recent_predictions |-> recent,
           crops_analyzed |-> locals.crops_analyzed])

StatsFail ==
    /\ stats' = [StatsIdle EXCEPT !.pc = "failed"]
    /\ response' = StatsFailed

\* total = await db.predictions.count_documents({})
StatsTotal ==
    /\ response = None
    /\ UNCHANGED <<trainVars, augVars, noted>>
    /\ stats.pc \in {"idle", "done", "failed"}
    /\ \E store_ok \in BOOLEAN :
          IF store_ok
          THEN /\ stats' = [StatsIdle EXCEPT !.pc = "total",
                                             !.nonempty = predictions # {},
                                             !.total = Cardinality(predictions)]
               /\ UNCHANGED response
          ELSE StatsFail
    /\ UNCHANGED <<model_data, treatments, predictions, clock, uuids>>

\* disease_dist = await db.predictions.aggregate(pipeline).to_list(100)
StatsDiseases ==
    /\ response = None
    /\ UNCHANGED <<trainVars, augVars, noted>>
    /\ stats.pc = "total"
    /\ \E store_ok \in BOOLEAN :
          IF store_ok
          THEN /\ stats' = [stats EXCEPT !.pc = "diseases",
                               !.nonempty = @ \/ predictions # {},
                               !.disease_distribution = GroupCount(predictions, "predicted_disease")]
               /\ UNCHANGED response
          ELSE StatsFail
    /\ UNCHANGED <<model_data, treatments, predictions, clock, uuids>>

\* crop_dist = await db.predictions.aggregate(crop_pipeline).to_list(100)
StatsCrops ==
    /\ response = None
    /\ UNCHANGED <<trainVars, augVars, noted>>
    /\ stats.pc = "diseases"
    /\ \E store_ok \in BOOLEAN :
          IF store_ok
          THEN /\ stats' = [stats EXCEPT !.pc = "crops",
                               !.nonempty = @ \/ predictions # {},
                               !.crops_analyzed = GroupCount(predictions, "crop_type")]
               /\ UNCHANGED response
          ELSE StatsFail
    /\ UNCHANGED <<model_data, treatments, predictions, clock, uuids>>

\* avg_result = await db.predictions.aggregate(avg_pipeline).to_list(1), then
\* week_ago = (datetime.now(timezone.utc) - timedelta(days=7)).isoformat()
StatsAverage ==
    /\ response = None
    /\ UNCHANGED <<trainVars, augVars, noted>>
    /\ stats.pc = "crops"
    /\ \E store_ok \in BOOLEAN : \E us \in SubSeconds :
          IF store_ok
          THEN /\ stats' = [stats EXCEPT !.pc = "average",
                               !.nonempty = @ \/ predictions # {},
                               !.avg_confidence = AvgPipeline(predictions),
                               !.week_ago = isoformat([t |-> clock - WeekTicks, us |-> us])]
               /\ UNCHANGED response
          ELSE StatsFail
    /\ UNCHANGED <<model_data, treatments, predictions, clock, uuids>>

\* recent = await db.predictions.count_documents(...), then the response.
StatsRecent ==
    /\ response = None
    /\ UNCHANGED <<trainVars, augVars, noted>>
    /\ stats.pc = "average"
    /\ \E store_ok \in BOOLEAN :
          IF store_ok
          THEN /\ response' = StatsResponse(stats, stats.avg_confidence,
                                            RecentCount(predictions, stats.week_ago))
               /\ stats' = [StatsIdle EXCEPT !.pc = "done",
                               !.nonempty = stats.nonempty \/ predictions # {}]
          ELSE StatsFail
    /\ UNCHANGED <<model_data, treatments, predictions, clock, uuids>>

\* Time passes.
Tick ==
    /\ response = None
    /\ UNCHANGED <<trainVars, augVars, noted>>
    /\ clock < MaxClock
    /\ clock' = clock + 1
    /\ UNCHANGED <<model_data, treatments, predictions, uuids, stats, response>>

\* Module load: joblib.load and json.load each succeed or are caught.
ServerLoad ==
    /\ model_data \in {None} \cup {Some(a) : a \in LoadableArtifacts}
    /\ treatments \in {<<>>, TreatmentTable}
    /\ predictions \in {{}, {OldDocument}}
    /\ clock = WeekTicks
    /\ uuids = 0
    /\ stats = StatsIdle
    /\ response = None

\* The observer: not observing, or observing with nothing noted yet.
Unobserved == [on |-> FALSE, call |-> None]

Observing == [on |-> TRUE, call |-> None]

ServerInit == ServerLoad /\ noted = Unobserved

ServerQuiet ==
    /\ model_data = None /\ treatments = <<>> /\ predictions = {}
    /\ clock = 0 /\ uuids = 0 /\ stats = StatsIdle /\ response = None
    /\ noted = Unobserved

TrainQuiet ==
    /\ main_pc = "done" /\ dataset_csv = None
    /\ main_df = None /\ main_X = None /\ main_y = None
    /\ main_split = None /\ main_metrics = None
    /\ pdm = NewModel /\ model_file = None /\ metrics_file = None
    /\ obs = None /\ served = None /\ reused = None

\* The response is sent; the next request's handler step may then run.
Deliver ==
    /\ response # None
    /\ response' = None
    /\ UNCHANGED <<model_data, treatments, predictions, clock, uuids, stats>>
    /\ UNCHANGED <<trainVars, augVars, noted>>

(***************************************************************************)
(* augment_data.py: augment_dataset.  A CSV file is text: a header and     *)
(* rows mapping column to the cell's characters.                           *)
(***************************************************************************)

\* dataset.py NUTRIENT_DEFICIENCY: "None", "Nitrogen", "Iron".
NoneStr == <<78, 111, 110, 101>>

Nitrogen == <<78, 105, 116, 114, 111, 103, 101, 110>>

Iron == <<73, 114, 111, 110>>

\* A missing cell, and a float64 cell held in hundredths.
NaN == [t |-> "nan", s |-> <<>>, n |-> 0]

Float(h) == [t |-> "float", s |-> <<>>, n |-> h]

\* pandas' default na_values of read_csv (pandas 2): "", "NA", "NaN", "nan",
\* "None", "null", "NULL", "N/A", "n/a", "<NA>", "#N/A", "#NA".
STR_NA_VALUES ==
    {<<>>, <<78, 65>>, <<78, 97, 78>>, <<110, 97, 110>>, NoneStr,
     <<110, 117, 108, 108>>, <<78, 85, 76, 76>>, <<78, 47, 65>>, <<110, 47, 97>>,
     <<60, 78, 65, 62>>, <<35, 78, 47, 65>>, <<35, 78, 65>>}

IsDigits(s) == s # <<>> /\ \A i \in DOMAIN s : s[i] \in 48..57

RECURSIVE IntOfDigits(_)
IntOfDigits(s) ==
    IF s = <<>> THEN 0
    ELSE 10 * IntOfDigits(SubSeq(s, 1, Len(s) - 1)) + (s[Len(s)] - 48)

IsIntText(s) == IsDigits(s) \/ (Len(s) > 1 /\ s[1] = 45 /\ IsDigits(Tail(s)))

IntOfText(s) == IF s[1] = 45 THEN 0 - IntOfDigits(Tail(s)) ELSE IntOfDigits(s)

\* A decimal with one or two places ("." is 46), and its value in hundredths.
IsFloatText(s) ==
    \E i \in DOMAIN s :
        /\ s[i] = 46
        /\ IsDigits(SubSeq(s, 1, i - 1))
        /\ IsDigits(SubSeq(s, i + 1, Len(s)))
        /\ Len(s) - i <= 2

FloatOfText(s) ==
    LET i == CHOOSE k \in DOMAIN s : s[k] = 46
        frac == SubSeq(s, i + 1, Len(s))
    IN  100 * IntOfDigits(SubSeq(s, 1, i - 1))
          + (IF Len(frac) = 1 THEN 10 * IntOfDigits(frac) ELSE IntOfDigits(frac))

\* repr of a non-negative float with at most two places: "6.5", "7.85", "8.0".
ReprFloat(h) ==
    Digits(h \div 100) \o <<46>> \o
        (IF h % 10 = 0 THEN <<48 + ((h % 100) \div 10)>>
         ELSE <<48 + ((h % 100) \div 10), 48 + (h % 10)>>)

\* read_csv's type inference for one column from its cells.
ColumnDtype(cells) ==
    IF cells = {} THEN "object"
    ELSE IF \A s \in cells : IsIntText(s) THEN "int64"
    ELSE IF \A s \in cells : IsIntText(s) \/ IsFloatText(s) \/ s \in STR_NA_VALUES
         THEN "float64"
    ELSE IF cells \subseteq {TrueStr, FalseStr} THEN "bool"
    ELSE "object"

ReadCell(dtype, s) ==
    CASE dtype = "int64" -> Num(IntOfText(s))
      [] dtype = "float64" ->
            IF s \in STR_NA_VALUES THEN NaN
            ELSE IF IsIntText(s) THEN Float(100 * IntOfText(s))
            ELSE Float(FloatOfText(s))
      [] dtype = "bool" -> Bool(s = TrueStr)
      [] OTHER -> IF s \in STR_NA_VALUES THEN NaN ELSE Str(s)

\* pd.read_csv(input_file)
read_csv(file) ==
    Frame(file.cols,
          [i \in DOMAIN file.rows |->
              [c \in Range(file.cols) |->
                  ReadCell(ColumnDtype({file.rows[k][c] : k \in DOMAIN file.rows}),
                           file.rows[i][c])]])

\* One cell as to_csv writes it (na_rep is "").
WriteCell(v) ==
    CASE v.t = "num" -> StrOfInt(v.n)
      [] v.t = "float" -> ReprFloat(v.n)
      [] v.t = "bool" -> AsStr(v)
      [] v.t = "nan" -> <<>>
      [] OTHER -> v.s

\* final_df.to_csv(output_file, index=False)
to_csv(frame) ==
    [cols |-> frame.cols,
     rows |-> [i \in DOMAIN frame.rows |->
                 [c \in Range(frame.cols) |-> WriteCell(frame.rows[i][c])]]]

\* f"SAMPLE_{k:06d}" ("SAMPLE_" then the number padded to six digits).
SampleId(k) ==
    <<83, 65, 77, 80, 76, 69, 95>> \o
        [i \in 1..(6 - Len(Digits(k))) |-> 48] \o Digits(k)

\* isoformat() of the day that lies d days back, as a four-character stamp.
Stamp(d) == <<68, 45>> \o TwoDigits(d)

\* The largest input and the largest target row count.
MaxAugRows == 2

MaxTarget == 3

AugColumns ==
    <<"sample_id", "timestamp", "plant_age_days", "soil_ph", "lesion_present",
      "lesion_count", "nutrient_deficiency_signs", "label_disease">>

\* Rows as dataset.py generate_sample writes them through csv.DictWriter.
GeneratedRow(i, kind) ==
    [c \in Range(AugColumns) |->
        CASE c = "sample_id" -> SampleId(i)
          [] c = "timestamp" -> Stamp(0)
          [] c = "plant_age_days" -> StrOfInt(<<25, 150, 90>>[kind])
          [] c = "soil_ph" -> ReprFloat(<<650, 785, 800>>[kind])
          [] c = "lesion_present" -> <<FalseStr, TrueStr, TrueStr>>[kind]
          [] c = "lesion_count" -> StrOfInt(<<0, 2, 25>>[kind])
          [] c = "nutrient_deficiency_signs" -> <<NoneStr, Nitrogen, Iron>>[kind]
          [] OTHER -> <<Healthy, Early_Blight, Early_Blight>>[kind]]

GeneratedKinds == 1..3

AugInputs ==
    UNION {{[cols |-> AugColumns, rows |-> [i \in 1..n |-> GeneratedRow(i, ks[i])]] :
              ks \in [1..n -> GeneratedKinds]} : n \in 0..MaxAugRows}

\* The values random.randint and random.uniform are drawn from, the ends and
\* the middle of each range (soil_ph in hundredths).
DaysAgo == {0, 30}

AgeJitter == {-10, 0, 10}

PhJitter == {-30, 0, 30}

LesionJitter == {-3, 0, 3}

\* bool(v) of a cell.
Truthy(v) ==
    CASE v.t = "bool" -> v.n = 1
      [] v.t = "str" -> v.s # <<>>
      [] v.t = "nan" -> TRUE
      [] OTHER -> v.n # 0

Numeric(v) == v.t \in {"num", "float"}

Hundredths(v) == IF v.t = "num" THEN 100 * v.n ELSE v.n

\* lines 10-19: read the input, return when it is already large enough.
AugLoad ==
    /\ aug_pc = "start"
    /\ LET df == read_csv(input_file[1])
       IN  /\ aug_df' = Some(df)
           /\ aug_pc' = IF Len(df.rows) >= target_size THEN "returned" ELSE "loop"
    /\ UNCHANGED <<input_file, target_size, augmented_samples, output_file>>
    /\ UNCHANGED <<trainVars, serverVars>>

\* One augmented row from a base row (lines 28-45).
Augmented(base_sample, k, days_ago, da, dp, dl) ==
    LET jittered ==
            [base_sample EXCEPT
                !["sample_id"] = Str(SampleId(k)),
                !["timestamp"] = Str(Stamp(days_ago)),
                !["plant_age_days"] =
                    Num(Max(20, (Hundredths(base_sample["plant_age_days"]) + 100 * da) \div 100)),
                !["soil_ph"] =
                    Float(Max(550, Min(800, Hundredths(base_sample["soil_ph"]) + dp)))]
    IN  IF Truthy(base_sample["lesion_present"])
        THEN [jittered EXCEPT
                !["lesion_count"] =
                    Num(Max(0, (Hundredths(base_sample["lesion_count"]) + 100 * dl) \div 100))]
        ELSE jittered

\* lines 23-47, one pass of the loop: df.sample(n=1) raises on an empty
\* frame, arithmetic on a cell that is not a number raises too.
AugSample ==
    /\ aug_pc = "loop"
    /\ Len(augmented_samples) < target_size - Len(aug_df[1].rows)
    /\ IF aug_df[1].rows = <<>>
       THEN /\ aug_pc' = "raised"
            /\ UNCHANGED augmented_samples
       ELSE \E r \in DOMAIN aug_df[1].rows : \E days_ago \in DaysAgo :
            \E da \in AgeJitter : \E dp \in PhJitter : \E dl \in LesionJitter :
               LET base_sample == aug_df[1].rows[r]
               IN  IF ~(Numeric(base_sample["plant_age_days"]) /\ Numeric(base_sample["soil_ph"])
                        /\ Numeric(base_sample["lesion_count"]))
                   THEN /\ aug_pc' = "raised"
                        /\ UNCHANGED augmented_samples
                   ELSE /\ augmented_samples' =
                              Append(augmented_samples,
                                     Augmented(base_sample,
                                               Len(aug_df[1].rows) + Len(augmented_samples) + 1,
                                               days_ago, da, dp, dl))
                        /\ UNCHANGED aug_pc
    /\ UNCHANGED <<input_file, target_size, aug_df, output_file>>
    /\ UNCHANGED <<trainVars, serverVars>>

\* lines 50-54: concat of the input frame and the new rows, written out.
AugSave ==
    /\ aug_pc = "loop"
    /\ Len(augmented_samples) = target_size - Len(aug_df[1].rows)
    /\ output_file' = Some(to_csv(Frame(aug_df[1].cols, aug_df[1].rows \o augmented_samples)))
    /\ aug_pc' = "saved"
    /\ UNCHANGED <<input_file, target_size, aug_df, augmented_samples>>
    /\ UNCHANGED <<trainVars, serverVars>>

AugInit ==
    /\ aug_pc = "start"
    /\ input_file \in {Some(f) : f \in AugInputs}
    /\ target_size \in 1..MaxTarget
    /\ aug_df = None /\ augmented_samples = <<>> /\ output_file = None

AugQuiet ==
    /\ aug_pc = "done" /\ input_file = None /\ target_size = 0
    /\ aug_df = None /\ augmented_samples = <<>> /\ output_file = None

AugNext ==
    \/ AugLoad
    \/ AugSample
    \/ AugSave

StoreNext ==
    \/ CreateRecord
    \/ GetRecords
    \/ GetRecord
    \/ DeleteRecord
    \/ Tick
    \/ Deliver

\* The server process from module load on: the Record Store's create, list,
\* get and delete endpoints.
StoreInit == ServerInit /\ TrainQuiet /\ AugQuiet

Spec == StoreInit /\ [][StoreNext]_vars

StatsNext ==
    \/ CreateRecord
    \/ DeleteRecord
    \/ StatsTotal
    \/ StatsDiseases
    \/ StatsCrops
    \/ StatsAverage
    \/ StatsRecent
    \/ Tick
    \/ Deliver

\* The server process from module load on: a get_stats request with creates
\* and deletes running between its reads.
SpecStats == StoreInit /\ [][StatsNext]_vars

PredictNext ==
    \/ PredictDisease
    \/ GetDiseases
    \/ Root
    \/ CreateRecord
    \/ GetRecords
    \/ GetRecord
    \/ DeleteRecord
    \/ Tick
    \/ Deliver

\* The server process from module load on: the Prediction Service endpoints
\* beside the record endpoints.
SpecPredict == StoreInit /\ [][PredictNext]_vars

LifecycleNext ==
    \/ CreateRecord
    \/ GetRecords
    \/ GetRecord
    \/ DeleteRecord
    \/ StatsTotal
    \/ StatsDiseases
    \/ StatsCrops
    \/ StatsAverage
    \/ StatsRecent
    \/ Deliver

\* The server process from module load on: every Record Store endpoint,
\* the requests arriving within one tick of the clock.
SpecLifecycle == StoreInit /\ [][LifecycleNext]_vars

RepeatInit == ServerLoad /\ noted = Observing /\ TrainQuiet /\ AugQuiet

RepeatNext ==
    \/ PredictDisease
    \/ CreateRecord
    \/ DeleteRecord
    \/ Tick
    \/ Deliver

\* The server process with an observer of the predict endpoint, among
\* creates, deletes and the passing of time.
SpecRepeat == RepeatInit /\ [][RepeatNext]_vars

\* One run of train.py main() on a dataset file.
MainInit == TrainInit /\ ServerQuiet /\ AugQuiet

SpecTrain == MainInit /\ [][TrainNext]_vars

\* A saved artifact and its two consumers, the server and the trainer's reuse path.
ConsumersInit == EncodeInit /\ ServerQuiet /\ AugQuiet

SpecEncode == ConsumersInit /\ [][EncodeNext]_vars

\* One run of augment_dataset on a generated dataset file.
AugmenterInit == AugInit /\ TrainQuiet /\ ServerQuiet

SpecAug == AugmenterInit /\ [][AugNext]_vars

(***************************************************************************)
(* Properties of the feature pipeline                                      *)
(***************************************************************************)

\* The Observation's raw value under key c, when it has one.
ObsHas(c) == c \in Range(Keys(obs[1]))

ObsValue(c) == Lookup(obs[1], c)

\* The keys of the Observation are exactly the artifact's feature_columns, in order.
ObsInTrainedShape == Keys(obs[1]) = model_file[1].feature_columns

BothEncoded == obs # None /\ served # None /\ reused # None

\* The Observation has every feature, and text or a bool wherever training had.
ObsComplete ==
    /\ Range(model_file[1].feature_columns) \subseteq Range(Keys(obs[1]))
    /\ \A c \in DOMAIN model_file[1].label_encoders : ObsValue(c).t \in {"str", "bool"}

\* C1: for one artifact and one Observation, the server's preprocess_input and
\* the trainer's preprocess(fit=False) give, before scaling, the same columns
\* in feature_columns order with the same encoded value in each, whatever the
\* key order of the mapping and whatever extra keys it has.
C1_EncodingAgreement ==
    (BothEncoded /\ ObsComplete) =>
        /\ served[1].X.cols = model_file[1].feature_columns
        /\ reused[1].X.cols = model_file[1].feature_columns
        /\ served[1].X.rows = reused[1].X.rows

\* C2: in both paths, on an Observation in the trained shape, nothing raises
\* and each column with a fitted encoder holds -1 when the value's string is
\* outside the encoder's vocabulary and its training-time index when inside.
EncodedAsClaimed(out) ==
    /\ ~out.raised
    /\ \A c \in DOMAIN model_file[1].label_encoders :
          LET classes == model_file[1].label_encoders[c]
              str == AsStr(ObsValue(c))
          IN  out.X.rows[1][c] =
                 IF str \in Range(classes) THEN Num(ClassIndex(classes, str)) ELSE Num(-1)

C2_UnseenIsMinusOne ==
    (BothEncoded /\ ObsInTrainedShape) =>
        EncodedAsClaimed(served[1]) /\ EncodedAsClaimed(reused[1])

\* The part of C2 the server path alone must meet.
C2_ServerUnseenIsMinusOne ==
    (BothEncoded /\ ObsInTrainedShape) => EncodedAsClaimed(served[1])

AfterFit == main_pc \in {"preprocessed", "split", "trained", "evaluated", "saved"}

\* The encoded value of row i, column c, read back from the scaled matrix
\* (StandardScaler.inverse_transform: x = (num + sum) / n).
EncodedAt(i, c) == (main_X[i][c].num + pdm.scaler.stat[c].sum) \div pdm.scaler.stat[c].n

StrictlySorted(classes) ==
    \A i \in DOMAIN classes : \A j \in DOMAIN classes : i < j => LexLess(classes[i], classes[j])

\* C3: after fit, each categorical column's encoder holds the k distinct
\* training values (as strings) in sorted order, encodes every training value
\* to an integer in 0..k-1, and looking that index up in the vocabulary gives
\* the value back.
C3_SortedBijection ==
    AfterFit =>
        /\ DOMAIN pdm.label_encoders = {"leaf_color", "lesion_present"}
        /\ \A c \in DOMAIN pdm.label_encoders :
              LET classes == pdm.label_encoders[c]
                  trained == {AsStr(main_df.rows[i][c]) : i \in DOMAIN main_df.rows}
              IN  /\ Range(classes) = trained
                  /\ Len(classes) = Cardinality(trained)
                  /\ StrictlySorted(classes)
                  /\ \A i \in DOMAIN main_df.rows :
                        /\ EncodedAt(i, c) \in 0..(Len(classes) - 1)
                        /\ classes[EncodedAt(i, c) + 1] = AsStr(main_df.rows[i][c])

\* C3's case: Yellow is read before Green, and the encoder still has Green -> 0, Yellow -> 1.
C3_Witness ==
    /\ AfterFit
    /\ main_df.rows[1]["leaf_color"] = Str(Yellow)
    /\ pdm.label_encoders["leaf_color"] = <<Green, Yellow>>
    /\ EncodedAt(1, "leaf_color") = 1
    /\ pdm.label_encoders["lesion_present"] = <<FalseStr, TrueStr>>

AfterSplit == main_pc \in {"split", "trained", "evaluated", "saved"}

\* C4: the pipeline is fitted on the train split only: every vocabulary entry
\* comes from a train row and the scaler's statistics count the train rows alone.
C4_FitOnTrainOnly ==
    AfterSplit =>
        /\ \A c \in DOMAIN pdm.label_encoders :
              Range(pdm.label_encoders[c]) \subseteq
                 {AsStr(main_df.rows[i][c]) : i \in main_split.train}
        /\ \A c \in Range(pdm.feature_columns) :
              pdm.scaler.stat[c].n = Count(main_split.train)

(***************************************************************************)
(* Prediction Service and Record Store Service                             *)
(***************************************************************************)

Answered(op) == response # None /\ response[1].op = op

\* A handler step that has just produced the response to a request on op.
Answers(ops) == response = None /\ response' # None /\ response'[1].op \in ops

\* C5: when the artifact was not loaded at startup, the process goes on, every
\* predict and diseases request is answered 500 "Model not loaded", and no
\* request makes model_data loaded.
C5_NotLoadedIsPermanent ==
    [][model_data = None =>
          /\ model_data' = None
          /\ Answers({"predict", "diseases"}) =>
                /\ response'[1].status = 500
                /\ response'[1].body = "Model not loaded"]_vars

\* The artifact is not loaded, a record was created and is stored, and a
\* predict request has just been refused.
C5_Witness ==
    /\ model_data = None
    /\ Answered("predict")
    /\ response[1].status = 500
    /\ \E d \in predictions : d.id > 0

\* C6: get and delete of an id that matches no stored record answer 404 and
\* leave the stored records as they were; they answer 500 only when the
\* store itself failed.
C6_UnknownIdIsNotFound ==
    [][(/\ Answers({"get", "delete"})
        /\ ~\E d \in predictions : d.id = response'[1].args.record_id) =>
          /\ predictions' = predictions
          /\ response'[1].status = IF response'[1].args.store_ok THEN 404 ELSE 500]_vars

\* A delete of an unknown id answered 404 while records are stored.
C6_Witness ==
    /\ Answered("delete")
    /\ response[1].status = 404
    /\ response[1].args.store_ok
    /\ \E d \in predictions : d.id > 0

\* C7: a predict request leaves model_data, treatments and the stored records
\* unchanged; a record is only ever added by a successful create.
C7_PredictChangesNothing ==
    [][/\ Answers({"predict"}) => UNCHANGED <<model_data, treatments, predictions>>
       /\ predictions' \ predictions # {} =>
             /\ response' # None
             /\ response'[1].op = "create"
             /\ response'[1].status = 200]_vars

\* A prediction was served from a loaded artifact while records are stored.
C7_Witness ==
    /\ Answered("predict")
    /\ response[1].status = 200
    /\ model_data # None
    /\ treatments # <<>>
    /\ \E d \in predictions : d.id > 0

\* datetime comparison of two parsed timestamps.
DtLeq(a, b) == a.t < b.t \/ (a.t = b.t /\ a.us <= b.us)

\* C8: a list request with limit L and skip S answers with stored records,
\* newest first: min(L, max(n - S, 0)) of them, after the S most recent ones
\* and before every other stored record.
C8_ListByRecency ==
    (Answered("list") /\ response[1].status = 200) =>
        LET L == response[1].args.limit
            S == response[1].args.skip
            page == response[1].body
            stored == {Parsed(d) : d \in predictions}
            n == Cardinality(predictions)
        IN  /\ Len(page) = Min(L, Max(n - S, 0))
            /\ Range(page) \subseteq stored
            /\ \A i \in DOMAIN page : \A j \in DOMAIN page :
                  i < j => page[i] # page[j] /\ DtLeq(page[j].timestamp, page[i].timestamp)
            /\ \E skipped \in SUBSET (stored \ Range(page)) :
                  /\ Cardinality(skipped) = Min(S, n)
                  /\ \A s \in skipped : \A r \in stored \ skipped :
                        DtLeq(r.timestamp, s.timestamp)
                  /\ \A q \in Range(page) : \A r \in stored \ (skipped \cup Range(page)) :
                        DtLeq(r.timestamp, q.timestamp)

\* Three records of different age are stored and the second newest is listed.
C8_Witness ==
    /\ Answered("list")
    /\ response[1].status = 200
    /\ response[1].args = [limit |-> 1, skip |-> 1]
    /\ Cardinality({d.timestamp : d \in predictions}) = 3
    /\ Len(response[1].body) = 1

\* C9: a get_stats request that found no stored record at any of its reads
\* answers 200 with total 0, average 0, recent 0 and empty distributions.
C9_EmptyStats ==
    (Answered("stats") /\ stats.pc = "done" /\ ~stats.nonempty) =>
        /\ response[1].status = 200
        /\ response[1].body.total_predictions = 0
        /\ response[1].body.avg_confidence = 0
        /\ response[1].body.recent_predictions = 0
        /\ response[1].body.disease_distribution = <<>>
        /\ response[1].body.crops_analyzed = <<>>

\* The request ran over an empty collection, after records had come and gone.
C9_Witness ==
    /\ Answered("stats")
    /\ stats.pc = "done"
    /\ ~stats.nonempty
    /\ predictions = {}
    /\ uuids > 0

\* The feature columns the Observation has no key for.
MissingColumns == Range(model_file[1].feature_columns) \ Range(Keys(obs[1]))

ServedWithMissing == obs # None /\ served # None /\ MissingColumns # {}

\* C12: preprocess_input on a mapping that lacks some feature column does
\* not fail; the column is 0 in the frame selected before encoding, and the
\* frame before scaling and the scaled row have one value per entry of
\* feature_columns, in that order.
C12_MissingColumnIsZero ==
    ServedWithMissing =>
        /\ ~served[1].raised
        /\ served[1].selected.cols = model_file[1].feature_columns
        /\ \A c \in MissingColumns : served[1].selected.rows[1][c] = Num(0)
        /\ \A c \in Range(Keys(obs[1])) \cap Range(model_file[1].feature_columns) :
              served[1].selected.rows[1][c] = ObsValue(c)
        /\ served[1].X.cols = model_file[1].feature_columns
        /\ DOMAIN served[1].X.rows[1] = Range(model_file[1].feature_columns)
        /\ DOMAIN served[1].X_scaled = Range(model_file[1].feature_columns)
        /\ \A c \in Range(model_file[1].feature_columns) : served[1].X.rows[1][c].t = "num"

\* A categorical column was left out: its 0 is then outside the encoder's
\* vocabulary and is encoded as -1.
C12_Witness ==
    /\ ServedWithMissing
    /\ "leaf_color" \in MissingColumns
    /\ served[1].selected.rows[1]["leaf_color"] = Num(0)
    /\ served[1].X.rows[1]["leaf_color"] = Num(-1)
    /\ ~served[1].raised

\* Every categorical value of the Observation is in the loaded encoder's
\* vocabulary.
SeenAtTraining(input_data) ==
    /\ model_data # None
    /\ \A c \in DOMAIN model_data[1].label_encoders :
          AsStr(Lookup(input_data, c)) \in Range(model_data[1].label_encoders[c])

\* The response repeats the input of the call the observer noted.
RepeatsNoted ==
    /\ Answered("predict")
    /\ noted.call # None
    /\ noted.call[1].args = response[1].args
    /\ SeenAtTraining(response[1].args)

RECURSIVE SumCounts(_, _)
SumCounts(dist, keys) ==
    IF keys = {} THEN 0
    ELSE LET k == CHOOSE x \in keys : TRUE
         IN  dist[k] + SumCounts(dist, keys \ {k})

StatsConsistent(body) ==
    /\ SumCounts(body.disease_distribution, DOMAIN body.disease_distribution)
          = body.total_predictions
    /\ SumCounts(body.crops_analyzed, DOMAIN body.crops_analyzed) = body.total_predictions
    /\ body.recent_predictions <= body.total_predictions

\* C13: every successful get_stats response is consistent, also with creates
\* and deletes between its reads: both distributions sum to
\* total_predictions and recent_predictions is at most total_predictions.
C13_StatsSnapshot ==
    (Answered("stats") /\ response[1].status = 200) => StatsConsistent(response[1].body)

\* The part of C13 the code keeps: the response is consistent when the
\* collection held the same document through the whole request.
C13_StatsOfUndisturbedStore ==
    (/\ Answered("stats") /\ response[1].status = 200
     /\ uuids = 0 /\ predictions = {OldDocument}) =>
        /\ StatsConsistent(response[1].body)
        /\ response[1].body.total_predictions = 1

Ids(docs) == {d.id : d \in docs}

StoredUnder(record_id) == CHOOSE d \in predictions : d.id = record_id

\* A get or delete has just been answered by a store that works, for an id
\* that was stored (or not) when the request came.
AnswersById(ops, stored) ==
    /\ Answers(ops)
    /\ response'[1].args.store_ok
    /\ (response'[1].args.record_id \in Ids(predictions)) = stored

\* C14: a create answered 200 stores exactly one new record, under an id no
\* record has or had, with the timestamp it returns; a get of a stored id
\* returns that record; a delete of a stored id removes exactly that record;
\* get and delete of an id that is not stored answer 404; and no other step
\* adds, removes or changes a record.
C14_RecordLifecycle ==
    [][/\ \A d1 \in predictions' : \A d2 \in predictions' : d1.id = d2.id => d1 = d2
       /\ (Answers({"create"}) /\ response'[1].status = 200) =>
             \E doc \in predictions' \ predictions :
                /\ predictions' = predictions \cup {doc}
                /\ doc.id \notin Ids(predictions) \cup (0..uuids)
                /\ Parsed(doc) = response'[1].body
                /\ doc.timestamp = isoformat(response'[1].body.timestamp)
                /\ \A f \in DOMAIN response'[1].args : doc[f] = response'[1].args[f]
       /\ (Answers({"create"}) /\ response'[1].status # 200) => predictions' = predictions
       /\ AnswersById({"get"}, TRUE) =>
             /\ response'[1].status = 200
             /\ response'[1].body = Parsed(StoredUnder(response'[1].args.record_id))
       /\ AnswersById({"delete"}, TRUE) =>
             /\ response'[1].status = 200
             /\ predictions' = predictions \ {StoredUnder(response'[1].args.record_id)}
             /\ Cardinality(predictions') = Cardinality(predictions) - 1
       /\ AnswersById({"get", "delete"}, FALSE) => response'[1].status = 404
       /\ (Answers({"delete"}) /\ response'[1].status # 200) => predictions' = predictions
       /\ ~Answers({"create", "delete"}) => predictions' = predictions]_vars

\* Record 1 was created and has just been deleted; record 2, created after
\* it, and the older document are still stored.
C14_Witness ==
    /\ Answered("delete")
    /\ response[1].status = 200
    /\ response[1].args.record_id = 1
    /\ 1 \notin Ids(predictions)
    /\ 2 \in Ids(predictions)
    /\ OldDocument \in predictions

(***************************************************************************)
(* Dataset Augmenter                                                       *)
(***************************************************************************)

\* The columns an augmented row takes over from its base row as they are.
CarriedColumns == {"lesion_present", "nutrient_deficiency_signs", "label_disease"}

RowCountReached == Len(output_file[1].rows) = target_size

InputRowsKept ==
    \A i \in DOMAIN input_file[1].rows : output_file[1].rows[i] = input_file[1].rows[i]

AppendedRowsDerived ==
    \A j \in (Len(input_file[1].rows) + 1)..Len(output_file[1].rows) :
        \E i \in DOMAIN input_file[1].rows :
            \A c \in CarriedColumns : output_file[1].rows[j][c] = input_file[1].rows[i][c]

\* C10: an augmentation of n input rows to a larger target t writes t rows,
\* the first n equal to the input rows in order, each further row carrying
\* the categorical cells and the label of some input row.
C10_AugmentAppends ==
    aug_pc = "saved" => RowCountReached /\ InputRowsKept /\ AppendedRowsDerived

\* The part of C10 the code keeps: the row count always, and the rows
\* themselves when no input cell is one of read_csv's NA strings.
C10_AugmentAppendsWithoutNaText ==
    aug_pc = "saved" =>
        /\ RowCountReached
        /\ (\A i \in DOMAIN input_file[1].rows : \A c \in Range(AugColumns) :
               input_file[1].rows[i][c] \notin STR_NA_VALUES)
              => InputRowsKept /\ AppendedRowsDerived

====
